---- MODULE Spec2Model ----
(***************************************************************************)
(* A model of the swing-detection pipeline of src/detect.py: the peak      *)
(* extractor (detect_impacts), the caller's edge trimming and clip loop    *)
(* (process_one_video), the batch orchestrator (auto_segment_all) and the  *)
(* review step that moves clips out of the swings directory.               *)
(*                                                                         *)
(* Time.  The program's times are idx / fps seconds, idx a frame index.    *)
(* The model keeps every time as the exact numerator over the denominator  *)
(* fps: a time value t stands for t / fps seconds, and a number of seconds *)
(* s is compared with it as s * fps.  Floating-point rounding is not       *)
(* modelled.                                                               *)
(***************************************************************************)
EXTENDS Integers, Sequences, FiniteSets, TLC

\* ------------------------------------------------------------ configuration
DOWNSAMPLE_FACTOR == 4
\* EDGE_TRIM_PCT = 0.0258, kept as a numerator over EDGE_TRIM_DEN
EDGE_TRIM_NUM == 258
EDGE_TRIM_DEN == 10000
MIN_SEP_SEC == 20
WINDOW_SEC == 10
\* detect_impacts' default percentile
PERCENTILE == 95

\* ------------------------------------------------------------ bounds
\* longest exhaustively enumerated motion series, and its largest magnitude
MaxLen == 5
MaxMag == 2
\* largest min_sep (seconds) tried on the enumerated series
MaxSep == 3
\* largest spike height of the synthetic spike series
MaxHeight == 2
\* largest frame rate and downsample stride tried on the enumerated series
MaxFps == 2
MaxDownsample == 2
\* largest os.cpu_count() tried
MaxCpus == 3
\* most frames of a video read frame by frame
MaxFrames == 5

\* ------------------------------------------------------------ helpers
Range(s) == {s[i] : i \in DOMAIN s}

Abs(x) == IF x < 0 THEN -x ELSE x

Max2(a, b) == IF a >= b THEN a ELSE b

RECURSIVE SortedSeq(_)
\* the elements of a finite set of integers, in increasing order
SortedSeq(S) ==
    IF S = {} THEN <<>>
    ELSE LET m == CHOOSE x \in S : \A y \in S : x <= y
         IN  <<m>> \o SortedSeq(S \ {m})

StrictlyIncreasing(s) == \A i \in 1..(Len(s) - 1) : s[i] < s[i + 1]

\* every two entries of s are at least sep apart
Separated(s, sep) ==
    \A i \in DOMAIN s : \A j \in DOMAIN s : i < j => s[j] - s[i] >= sep

\* ------------------------------------------------------------ np.percentile
CountLess(m, v) == Cardinality({i \in DOMAIN m : m[i] < v})

CountLeq(m, v) == Cardinality({i \in DOMAIN m : m[i] <= v})

\* the k-th smallest entry of m, k counted from 0
OrderStat(m, k) ==
    CHOOSE v \in Range(m) : CountLess(m, v) <= k /\ k < CountLeq(m, v)

\* 100 * np.percentile(m, q): linear interpolation between the two order
\* statistics around position q/100 * (n - 1)
Percentile100(m, q) ==
    LET n   == Len(m)
        pos == q * (n - 1)
        lo  == pos \div 100
        r   == pos % 100
        hi  == IF lo + 1 <= n - 1 THEN lo + 1 ELSE n - 1
    IN  100 * OrderStat(m, lo) + r * (OrderStat(m, hi) - OrderStat(m, lo))

\* ------------------------------------------------------------ scipy find_peaks
RECURSIVE PlateauEnd(_, _)
\* the last index of the run of equal values that starts at i
PlateauEnd(m, i) ==
    IF i < Len(m) /\ m[i + 1] = m[i] THEN PlateauEnd(m, i + 1) ELSE i

\* indices of the local maxima: a sample, or the middle (rounded down) of a
\* flat run, strictly higher than both neighbours; never the first or last sample
LocalMaxima(m) ==
    { (l + PlateauEnd(m, l)) \div 2 :
        l \in { i \in 2..(Len(m) - 1) :
                  /\ m[i - 1] < m[i]
                  /\ PlateauEnd(m, i) < Len(m)
                  /\ m[PlateauEnd(m, i) + 1] < m[i] } }

\* the orders np.argsort may return for the peaks' heights: increasing height,
\* peaks of equal height in any order
PriorityOrders(pk, m) ==
    { o \in Permutations(DOMAIN pk) :
        \A a \in DOMAIN pk : \A b \in DOMAIN pk :
            a < b => m[pk[o[a]]] <= m[pk[o[b]]] }

RECURSIVE SelectLoop(_, _, _, _, _)
\* from the highest peak down, a peak still kept removes every other peak
\* closer than distance samples
SelectLoop(pk, distance, order, i, keep) ==
    IF i = 0 THEN keep
    ELSE LET j == order[i]
         IN  IF j \notin keep
             THEN SelectLoop(pk, distance, order, i - 1, keep)
             ELSE SelectLoop(pk, distance, order, i - 1,
                     keep \ { k \in DOMAIN pk :
                                k # j /\ Abs(pk[k] - pk[j]) < distance })

HeightPeaks_NoThreshold(m, thr100) == SortedSeq(LocalMaxima(m))

\* find_peaks, height=thr: the local maxima of height >= thr (thr100 is
\* 100 * thr), in increasing index order
HeightPeaks(m, thr100) ==
    SortedSeq({ i \in LocalMaxima(m) : 100 * m[i] >= thr100 })

\* find_peaks, distance=distance: the peaks pk thinned by distance, in
\* increasing index order
SelectByPeakDistance(pk, distance, order) ==
    SortedSeq({ pk[k] : k \in SelectLoop(pk, distance, order, Len(pk), DOMAIN pk) })

\* ------------------------------------------------------------ detect_impacts
\* min_dist = int(1 / (times[1] - times[0])), the times being t / f seconds
MinDist(t, f) == f \div (t[2] - t[1])

KeepsCandidate_NoSeparation(t, last_t, sep) == t - last_t > 0

\* t - last_t >= min_sep
KeepsCandidate(t, last_t, sep) == t - last_t >= sep

RECURSIVE GreedyLoop_UpdateAlways(_, _, _, _, _, _)
GreedyLoop_UpdateAlways(t, pk, sep, i, out, last_t) ==
    IF i > Len(pk) THEN out
    ELSE IF KeepsCandidate(t[pk[i]], last_t, sep)
         THEN GreedyLoop_UpdateAlways(t, pk, sep, i + 1, Append(out, t[pk[i]]), t[pk[i]])
         ELSE GreedyLoop_UpdateAlways(t, pk, sep, i + 1, out, t[pk[i]])

RECURSIVE GreedyLoop(_, _, _, _, _, _)
\* for p in peaks: keep times[p] when it is sep after the last kept time
GreedyLoop(t, pk, sep, i, out, last_t) ==
    IF i > Len(pk) THEN out
    ELSE IF KeepsCandidate(t[pk[i]], last_t, sep)
         THEN GreedyLoop(t, pk, sep, i + 1, Append(out, t[pk[i]]), t[pk[i]])
         ELSE GreedyLoop(t, pk, sep, i + 1, out, last_t)

EnforceSeparation_LastZero(t, pk, sep) == GreedyLoop(t, pk, sep, 1, <<>>, 0)

\* the second pass over the candidates pk, last_t starting at -min_sep; sep is
\* min_sep * fps
EnforceSeparation(t, pk, sep) == GreedyLoop(t, pk, sep, 1, <<>>, -sep)

\* detect_impacts(times, mags, percentile, min_sep) past its guards, the
\* peaks' heights sorted as order; t are numerators over f, sep is in seconds
ImpactsWith(t, m, f, q, sep, order) ==
    EnforceSeparation(t,
        SelectByPeakDistance(HeightPeaks(m, Percentile100(m, q)), MinDist(t, f), order),
        sep * f)

\* ------------------------------------------------------------ edge trimming
InsideEdges_HeadOnly(t, dur) == t * EDGE_TRIM_DEN >= dur * EDGE_TRIM_NUM

\* (impacts >= lo) & (impacts <= hi), lo = dur * EDGE_TRIM_PCT and
\* hi = dur * (1 - EDGE_TRIM_PCT)
InsideEdges(t, dur) ==
    /\ t * EDGE_TRIM_DEN >= dur * EDGE_TRIM_NUM
    /\ t * EDGE_TRIM_DEN <= dur * (EDGE_TRIM_DEN - EDGE_TRIM_NUM)

TrimEdges_None(ev, dur) == ev

\* impacts[(impacts >= lo) & (impacts <= hi)]
TrimEdges(ev, dur) == SelectSeq(ev, LAMBDA t : InsideEdges(t, dur))

\* ------------------------------------------------------------ motion series
\* the sample times of compute_motion_series: one sample per retained frame
\* after the first, at frame indices ds, 2 ds, ..., n ds
GridTimes(n, ds) == [j \in 1..n |-> j * ds]

\* a series of n samples, flat at 0 but for the spikes (sample index -> height)
SpikeSeries(n, spikes) ==
    [j \in 1..n |-> IF j \in DOMAIN spikes THEN spikes[j] ELSE 0]

\* the spike times (seconds) of the synthetic series of the testable properties
SpikeSeconds == {5, 12, 40, 41, 70}
\* the series' lengths (seconds) tried
SpikeLengths == {75, 100}
\* spike positions (samples) tried on a 9-sample series: two of them closer
\* than a second at 3 samples a second
CloseSpikes == {2, 6, 8}
\* spike times (seconds) tried on a 1000-second video sampled once a second
LongSpikeSeconds == {5, 10, 28, 30, 50, 970, 995}

\* ------------------------------------------------------------ state
VARIABLES
    fps,          \* frame rate of the analysed video
    times,        \* sample times (numerators over fps)
    mags,         \* sample magnitudes
    min_sep,      \* minimum separation, seconds
    frame_count,  \* the container's frame count: dur = frame_count / fps
    peaks,        \* candidate sample indices of the first pass
    events,       \* what detect_impacts returned
    impacts,      \* the events left after edge trimming
    dpc           \* "start", "returned", "raised", "trimmed"

dvars == <<fps, times, mags, min_sep, frame_count, peaks, events, impacts, dpc>>

\* ------------------------------------------------------------ batch state
VARIABLES
    videos,       \* the stems of COMPRESSED_DIR's videos
    profile,      \* each video's content
    cpus,         \* os.cpu_count()
    swings,       \* the clip names in SWINGS_DIR
    phase,        \* "idle", "running", "finished", "review"
    job,          \* the submitted tasks: video -> BatchJobState
    found,        \* a processing task's impacts
    nxt,          \* a processing task's position: 0 before the analysis, then
                  \* the index of the next impact to cut
    did,          \* what a task has done: "probe", "decode", "detect", "cut"
    collected,    \* the futures as_completed has yielded
    reported,     \* the videos whose error the orchestrator has printed
    all_results,  \* the mapping auto_segment_all passes to every task
    cuts,         \* ffmpeg invocations of this batch run
    before,       \* SWINGS_DIR as this batch run found it
    ranBefore,    \* a batch run over this corpus has completed earlier
    doneBefore,   \* the videos an earlier batch run has processed to Done
    files,        \* ReviewWindow.files
    idx,          \* ReviewWindow.idx
    calls,        \* each task's ffmpeg invocations, in order
    printed       \* each task's printed lines, in order

bvars == <<videos, profile, cpus, swings, phase, job, found, nxt, did, collected,
           reported, all_results, cuts, before, ranBefore, doneBefore, files, idx, calls, printed>>

\* ------------------------------------------------------------ reader state
VARIABLES
    cap_frames,   \* the frames of the opened video: the gray level of each
    cap_fps,      \* cap.get(cv2.CAP_PROP_FPS)
    downsample,   \* compute_motion_series' stride
    frame_idx,    \* compute_motion_series.idx: frames read so far
    prev_gray,    \* <<>> for None, else <<the previous retained frame>>
    m_times,      \* compute_motion_series.times (numerators over cap_fps)
    m_mags,       \* compute_motion_series.mags
    retained,     \* the indices of the frames that were retained
    read_failed,  \* cap.read() failed before the last frame
    mpc           \* "idle", "reading", "returned", "detecting"

mvars == <<cap_frames, cap_fps, downsample, frame_idx, prev_gray, m_times, m_mags,
           retained, read_failed, mpc>>

vars == <<dvars, bvars, mvars>>

\* every enumerated series: any magnitudes, read completely (frame_count the
\* frames read) or from a container that reports more frames than were read
InitEnumerated ==
    \E n \in 0..MaxLen, f \in 1..MaxFps, ds \in 1..MaxDownsample, s \in 1..MaxSep :
        /\ fps = f
        /\ times = GridTimes(n, ds)
        /\ mags \in [1..n -> 0..MaxMag]
        /\ min_sep = s
        /\ frame_count \in {n * ds + 1, 100 * ds}

\* the synthetic series with spikes at SpikeSeconds, every choice of heights
InitSpikes ==
    \E f \in 1..3, len \in SpikeLengths, h \in [SpikeSeconds -> 1..MaxHeight] :
        /\ fps = f
        /\ times = GridTimes(len * f, 1)
        /\ mags = SpikeSeries(len * f,
                     [j \in {sec * f : sec \in SpikeSeconds} |-> h[j \div f]])
        /\ min_sep = MIN_SEP_SEC
        /\ frame_count = len * f + 1

\* a 1000-second video sampled once a second, spikes of height 1, the one at
\* 10 s of height 2
InitLong ==
    \E S \in SUBSET LongSpikeSeconds :
        /\ fps = 1
        /\ times = GridTimes(999, 1)
        /\ mags = SpikeSeries(999, [j \in S |-> IF j = 10 THEN 2 ELSE 1])
        /\ min_sep = MIN_SEP_SEC
        /\ frame_count = 1000

\* a 9-sample series with spikes (or none) at CloseSpikes, every choice of
\* heights, sampled 1 to 3 times a second
InitClose ==
    \E f \in 1..3, s \in 1..MaxSep, h \in [CloseSpikes -> 0..MaxHeight] :
        /\ fps = f
        /\ times = GridTimes(9, 1)
        /\ mags = SpikeSeries(9, h)
        /\ min_sep = s
        /\ frame_count = 10

InitDetect ==
    /\ InitEnumerated \/ InitSpikes \/ InitLong \/ InitClose
    /\ peaks = <<>>
    /\ events = <<>>
    /\ impacts = <<>>
    /\ dpc = "start"

\* detect_impacts, fewer than 2 samples: returns no event
DetectEmpty ==
    /\ dpc = "start"
    /\ Len(mags) < 2
    /\ events' = <<>>
    /\ dpc' = "returned"
    /\ UNCHANGED <<bvars, mvars, fps, times, mags, min_sep, frame_count, peaks, impacts>>

\* detect_impacts, min_dist = 0: find_peaks raises ValueError
DetectRaises ==
    /\ dpc = "start"
    /\ Len(mags) >= 2
    /\ MinDist(times, fps) < 1
    /\ dpc' = "raised"
    /\ UNCHANGED <<bvars, mvars, fps, times, mags, min_sep, frame_count, peaks, events, impacts>>

\* detect_impacts: threshold, first pass (find_peaks), second pass (greedy)
DetectImpacts ==
    /\ dpc = "start"
    /\ Len(mags) >= 2
    /\ MinDist(times, fps) >= 1
    /\ LET hp == HeightPeaks(mags, Percentile100(mags, PERCENTILE))
       IN  \E order \in PriorityOrders(hp, mags) :
             peaks' = SelectByPeakDistance(hp, MinDist(times, fps), order)
    /\ events' = EnforceSeparation(times, peaks', min_sep * fps)
    /\ dpc' = "returned"
    /\ UNCHANGED <<bvars, mvars, fps, times, mags, min_sep, frame_count, impacts>>

\* process_one_video, step 2: trim the edges of the returned events
Trim ==
    /\ dpc = "returned"
    /\ impacts' = TrimEdges(events, frame_count)
    /\ dpc' = "trimmed"
    /\ UNCHANGED <<bvars, mvars, fps, times, mags, min_sep, frame_count, peaks, events>>


\* ------------------------------------------------------------ compute_motion_series
\* mag.mean() of the optical flow between two retained frames: how far the
\* gray level moved
FlowMagnitude(prev, gray) == Abs(gray - prev)

Retained_Offset(i, ds) == i % ds = ds - 1

\* if idx % downsample == 0
Retained(i, ds) == i % ds = 0

\* a video is opened: any frames, a positive frame rate (get_video_duration
\* has returned), a positive stride
InitMotion ==
    /\ \E n \in 0..MaxFrames : cap_frames \in [1..n -> 0..MaxMag]
    /\ cap_fps \in 1..MaxFps
    /\ downsample \in 1..MaxDownsample
    /\ frame_idx = 0
    /\ prev_gray = <<>>
    /\ m_times = <<>>
    /\ m_mags = <<>>
    /\ retained = {}
    /\ read_failed = FALSE
    /\ mpc = "reading"

\* cap.read() gives a frame whose index is a multiple of the stride: the first
\* such frame is only remembered, every later one gives a sample
ReadRetained ==
    /\ mpc = "reading"
    /\ frame_idx < Len(cap_frames)
    /\ Retained(frame_idx, downsample)
    /\ LET gray == cap_frames[frame_idx + 1]
       IN  /\ IF prev_gray # <<>>
              THEN /\ m_times' = Append(m_times, frame_idx)
                   /\ m_mags' = Append(m_mags, FlowMagnitude(prev_gray[1], gray))
              ELSE UNCHANGED <<m_times, m_mags>>
           /\ prev_gray' = <<gray>>
    /\ retained' = retained \cup {frame_idx}
    /\ frame_idx' = frame_idx + 1
    /\ UNCHANGED <<dvars, bvars, cap_frames, cap_fps, downsample, read_failed, mpc>>

\* cap.read() gives a frame between two retained ones
ReadDropped ==
    /\ mpc = "reading"
    /\ frame_idx < Len(cap_frames)
    /\ ~Retained(frame_idx, downsample)
    /\ frame_idx' = frame_idx + 1
    /\ UNCHANGED <<dvars, bvars, cap_frames, cap_fps, downsample, prev_gray, m_times,
                   m_mags, retained, read_failed, mpc>>

\* cap.read() returns ret = False after the last frame: break, return
ReadEnds ==
    /\ mpc = "reading"
    /\ frame_idx = Len(cap_frames)
    /\ mpc' = "returned"
    /\ UNCHANGED <<dvars, bvars, cap_frames, cap_fps, downsample, frame_idx, prev_gray,
                   m_times, m_mags, retained, read_failed>>

ReadFails_DropsSeries ==
    /\ mpc = "reading"
    /\ frame_idx < Len(cap_frames)
    /\ read_failed' = TRUE
    /\ mpc' = "returned"
    /\ m_times' = <<>>
    /\ m_mags' = <<>>
    /\ UNCHANGED <<dvars, bvars, cap_frames, cap_fps, downsample, frame_idx, prev_gray,
                   retained>>

\* cap.read() returns ret = False before the last frame (a frame does not
\* decode, the stream ends early): break, return
ReadFails ==
    /\ mpc = "reading"
    /\ frame_idx < Len(cap_frames)
    /\ read_failed' = TRUE
    /\ mpc' = "returned"
    /\ UNCHANGED <<dvars, bvars, cap_frames, cap_fps, downsample, frame_idx, prev_gray,
                   m_times, m_mags, retained>>

\* process_one_video, lines 108-109: the series goes to detect_impacts; dur was
\* computed from the frame count the container reports
CallDetect ==
    /\ mpc = "returned"
    /\ mpc' = "detecting"
    /\ fps' = cap_fps
    /\ times' = m_times
    /\ mags' = m_mags
    /\ min_sep' = MIN_SEP_SEC
    /\ frame_count' = Len(cap_frames)
    /\ dpc' = "start"
    /\ UNCHANGED <<bvars, peaks, events, impacts, cap_frames, cap_fps, downsample,
                   frame_idx, prev_gray, m_times, m_mags, retained, read_failed>>

\* ------------------------------------------------------------ file names
Digits == <<"0", "1", "2", "3", "4", "5", "6", "7", "8", "9">>

RECURSIVE Decimal(_)
\* the decimal digits of a natural number
Decimal(n) ==
    IF n < 10 THEN <<Digits[n + 1]>>
    ELSE Decimal(n \div 10) \o <<Digits[(n % 10) + 1]>>

\* f"{i:02d}"
Pad2(i) == IF i < 10 THEN <<"0">> \o Decimal(i) ELSE Decimal(i)

\* num / den rounded to the nearest integer, ties to even
RoundHalfEven(num, den) ==
    LET q == num \div den
        r == num % den
    IN  IF 2 * r < den THEN q
        ELSE IF 2 * r > den THEN q + 1
        ELSE IF q % 2 = 0 THEN q ELSE q + 1

\* f"{x:.1f}" of x = tenths / 10, x >= 0
Fixed1(tenths) == Decimal(tenths \div 10) \o <<".">> \o Decimal(tenths % 10)

WindowStart_Unclamped(t, f) == t - WINDOW_SEC * f

\* start_time = max(0, t - WINDOW_SEC), the impact being at t / f seconds
WindowStart(t, f) == Max2(0, t - WINDOW_SEC * f)

\* start_time = max(0, t - WINDOW_SEC) in tenths of a second as "{:.1f}"
\* prints it, the impact being at t / f seconds
StartTenths(t, f) == RoundHalfEven(10 * Max2(0, t - WINDOW_SEC * f), f)

\* f"{stem}_{i:02d}_{start_time:.1f}s.mp4"
ClipName(stem, i, tenths) ==
    stem \o <<"_">> \o Pad2(i) \o <<"_">> \o Fixed1(tenths) \o <<"s", ".", "m", "p", "4">>

IsPrefix(a, b) == Len(a) <= Len(b) /\ SubSeq(b, 1, Len(a)) = a

IsSuffix(a, b) == Len(a) <= Len(b) /\ SubSeq(b, Len(b) - Len(a) + 1, Len(b)) = a

\* name matches the glob f"{stem}_*.mp4"
GlobMatches(stem, name) ==
    /\ Len(name) >= Len(stem) + 5
    /\ IsPrefix(stem \o <<"_">>, name)
    /\ IsSuffix(<<".", "m", "p", "4">>, name)

\* character codes, for sorted()
Code ==
    [c \in {".", "_", "a", "b", "c", "m", "p", "s"} \cup Range(Digits) |->
        CASE c = "." -> 46
          [] c = "_" -> 95
          [] c = "a" -> 97
          [] c = "b" -> 98
          [] c = "c" -> 99
          [] c = "m" -> 109
          [] c = "p" -> 112
          [] c = "s" -> 115
          [] OTHER -> 47 + (CHOOSE d \in 1..10 : Digits[d] = c)]

RECURSIVE LexLess(_, _)
\* a < b as Python compares strings
LexLess(a, b) ==
    IF b = <<>> THEN FALSE
    ELSE IF a = <<>> THEN TRUE
    ELSE IF Code[Head(a)] # Code[Head(b)] THEN Code[Head(a)] < Code[Head(b)]
    ELSE LexLess(Tail(a), Tail(b))

RECURSIVE SortedNames(_)
\* sorted(S) for a set of names
SortedNames(S) ==
    IF S = {} THEN <<>>
    ELSE LET m == CHOOSE x \in S : \A y \in S \ {x} : LexLess(x, y)
         IN  <<m>> \o SortedNames(S \ {m})

\* ------------------------------------------------------------ videos
\* the stems of the videos that may lie in COMPRESSED_DIR
Stems == {<<"a">>, <<"a", "_", "b">>, <<"c">>}

\* the contents a video may have: what the container reports (fps,
\* frame_count), the frames that decode (nread) and the flow magnitudes of
\* the retained frames (flat at 0 but for spikes)
Profiles == {"unreadable", "short", "one", "two", "tail"}

Video(p) ==
    CASE p = "unreadable" ->
            [fps |-> 0, frame_count |-> 0, nread |-> 0, spikes |-> <<>>]
      [] p = "short" ->
            [fps |-> 4, frame_count |-> 8, nread |-> 8, spikes |-> <<>>]
      [] p = "one" ->
            [fps |-> 4, frame_count |-> 400, nread |-> 400, spikes |-> (40 :> 1)]
      [] p = "two" ->
            [fps |-> 4, frame_count |-> 400, nread |-> 400,
             spikes |-> (5 :> 1) @@ (60 :> 2)]
      [] p = "tail" ->
            [fps |-> 4, frame_count |-> 400, nread |-> 400, spikes |-> (95 :> 1)]

\* compute_motion_series: every ds-th frame read is retained, each retained
\* frame after the first gives one sample
ComputeMotionSeries(v, ds) ==
    LET n == IF v.nread = 0 THEN 0 ELSE (v.nread - 1) \div ds
    IN  [times |-> GridTimes(n, ds), mags |-> SpikeSeries(n, v.spikes)]

ProbeRaises_DefaultRate(v) == FALSE

\* get_video_duration raises ZeroDivisionError (frame_count / fps)
ProbeRaises(v) == v.fps = 0

DetectRaisesOn_NoGuard(v, ds) ==
    LET ser == ComputeMotionSeries(v, ds)
    IN  Len(ser.mags) < 2 \/ MinDist(ser.times, v.fps) < 1

\* detect_impacts raises (find_peaks refuses a distance below 1)
DetectRaisesOn(v, ds) ==
    LET ser == ComputeMotionSeries(v, ds)
    IN  Len(ser.mags) >= 2 /\ MinDist(ser.times, v.fps) < 1

\* process_one_video, lines 105-112, on a video that raises nothing: the
\* trimmed impacts. The same video gives the same impacts on every run
\* (np.argsort is a function of its input).
ImpactsOf(v, ds) ==
    LET ser == ComputeMotionSeries(v, ds)
        hp  == HeightPeaks(ser.mags, Percentile100(ser.mags, PERCENTILE))
        ev  == IF Len(ser.mags) < 2 THEN <<>>
               ELSE ImpactsWith(ser.times, ser.mags, v.fps, PERCENTILE, MIN_SEP_SEC,
                                CHOOSE o \in PriorityOrders(hp, ser.mags) : TRUE)
    IN  TrimEdges(ev, v.frame_count)

\* what each content leads to, computed once
Outcome ==
    [p \in Profiles |->
        IF ProbeRaises(Video(p)) THEN [raises |-> "probe", impacts |-> <<>>]
        ELSE IF DetectRaisesOn(Video(p), DOWNSAMPLE_FACTOR)
             THEN [raises |-> "detect", impacts |-> <<>>]
        ELSE [raises |-> "no", impacts |-> ImpactsOf(Video(p), DOWNSAMPLE_FACTOR)]]

\* ------------------------------------------------------------ batch: start of a run
\* a line a task prints: which print, and the count it shows (0 when it shows none)
Line(msg, n) == [msg |-> msg, n |-> n]

\* no task is submitted
NoRun ==
    /\ job = <<>>
    /\ found = <<>>
    /\ nxt = <<>>
    /\ did = <<>>
    /\ collected = {}
    /\ reported = {}
    /\ cuts = 0
    /\ before = {}
    /\ calls = <<>>
    /\ printed = <<>>

InitBatch ==
    /\ videos \in SUBSET Stems
    /\ profile \in [videos -> Profiles]
    /\ cpus \in 1..MaxCpus
    /\ swings = {}
    /\ phase = "idle"
    /\ NoRun
    /\ all_results = <<>>
    /\ ranBefore = FALSE
    /\ doneBefore = {}
    /\ files = <<>>
    /\ idx = 0

\* the tasks a worker thread is running
Running == {v \in DOMAIN job : job[v] = "Processing"}

\* already = list(SWINGS_DIR.glob(f"{stem}_*.mp4"))
ExistingClips(v) == {n \in swings : GlobMatches(v, n)}

AlreadyProcessed_Never(v) == FALSE

\* if already:
AlreadyProcessed(v) == ExistingClips(v) # {}

TaskRaises_FailsPending(jobs, v) ==
    [w \in DOMAIN jobs |-> IF w = v \/ jobs[w] = "Pending" THEN "Failed" ELSE jobs[w]]

\* an exception leaving process_one_video ends that task's future, and no other
TaskRaises(jobs, v) == [jobs EXCEPT ![v] = "Failed"]

Completed_Always(v) == TRUE

Completed_OnlyReturned(v) == job[v] \in {"Skipped", "Done"}

\* the future of v is done
Completed(v) == job[v] \in {"Skipped", "Done", "Failed"}

AfterResult_Retry(st) == IF st = "Failed" THEN "Pending" ELSE st

\* fut.result() and its handler leave the task as it ended: nothing is resubmitted
AfterResult(st) == st

StoreResult_Uncommented(res, stem, imp) == (stem :> imp) @@ res

\* lines 114-133 are comments: a task stores nothing in all_results
StoreResult(res, stem, imp) == res

\* ------------------------------------------------------------ auto_segment_all
\* if not videos: print and return
NoVideos ==
    /\ phase = "idle"
    /\ videos = {}
    /\ phase' = "finished"
    /\ UNCHANGED <<dvars, mvars, calls, printed, videos, profile, cpus, swings, job, found, nxt, did, collected,
                   reported, all_results, cuts, before, ranBefore, doneBefore, files, idx>>

\* futures = { exe.submit(process_one_video, v, all_results): v for v in videos }
Submit ==
    /\ phase = "idle"
    /\ videos # {}
    /\ phase' = "running"
    /\ job' = [v \in videos |-> "Pending"]
    /\ found' = [v \in videos |-> <<>>]
    /\ nxt' = [v \in videos |-> 0]
    /\ did' = [v \in videos |-> {}]
    /\ collected' = {}
    /\ reported' = {}
    /\ cuts' = 0
    /\ before' = swings
    /\ calls' = [v \in videos |-> <<>>]
    /\ printed' = [v \in videos |-> <<>>]
    /\ UNCHANGED <<dvars, mvars, videos, profile, cpus, swings, all_results, ranBefore, doneBefore, files, idx>>

CanStart_Unbounded(v) ==
    /\ phase = "running"
    /\ v \in DOMAIN job
    /\ job[v] = "Pending"

\* a worker takes a pending task
CanStart(v) ==
    /\ phase = "running"
    /\ v \in DOMAIN job
    /\ job[v] = "Pending"
    /\ Cardinality(Running) < cpus

\* process_one_video, lines 99-103: clips of this stem exist, return
SkipVideo(v) ==
    /\ CanStart(v)
    /\ AlreadyProcessed(v)
    /\ job' = [job EXCEPT ![v] = "Skipped"]
    /\ printed' = [printed EXCEPT ![v] = Append(@, Line("Skipping", Cardinality(ExistingClips(v))))]
    /\ UNCHANGED <<dvars, mvars, calls, videos, profile, cpus, swings, phase, found, nxt, did, collected,
                   reported, all_results, cuts, before, ranBefore, doneBefore, files, idx>>

\* process_one_video, lines 99-104: no clip of this stem, go on
BeginVideo(v) ==
    /\ CanStart(v)
    /\ ~AlreadyProcessed(v)
    /\ job' = [job EXCEPT ![v] = "Processing"]
    /\ printed' = [printed EXCEPT ![v] = Append(@, Line("Processing", 0))]
    /\ UNCHANGED <<dvars, mvars, calls, videos, profile, cpus, swings, phase, found, nxt, did, collected,
                   reported, all_results, cuts, before, ranBefore, doneBefore, files, idx>>

\* process_one_video, lines 105-109: get_video_duration or detect_impacts raises
AnalyseRaises(v) ==
    /\ v \in Running
    /\ nxt[v] = 0
    /\ Outcome[profile[v]].raises # "no"
    /\ did' = [did EXCEPT ![v] =
                 IF Outcome[profile[v]].raises = "probe" THEN {"probe"}
                 ELSE {"probe", "decode", "detect"}]
    /\ job' = TaskRaises(job, v)
    /\ printed' = [printed EXCEPT ![v] =
                     IF Outcome[profile[v]].raises = "probe" THEN @
                     ELSE Append(@, Line("Duration", 0))]
    /\ UNCHANGED <<dvars, mvars, calls, videos, profile, cpus, swings, phase, found, nxt, collected,
                   reported, all_results, cuts, before, ranBefore, doneBefore, files, idx>>

\* process_one_video, lines 105-133: duration, motion series, impacts, trimming
Analyse(v) ==
    /\ v \in Running
    /\ nxt[v] = 0
    /\ Outcome[profile[v]].raises = "no"
    /\ did' = [did EXCEPT ![v] = {"probe", "decode", "detect"}]
    /\ found' = [found EXCEPT ![v] = Outcome[profile[v]].impacts]
    /\ nxt' = [nxt EXCEPT ![v] = 1]
    /\ all_results' = StoreResult(all_results, v, Outcome[profile[v]].impacts)
    /\ printed' = [printed EXCEPT ![v] =
                     @ \o <<Line("Duration", 0),
                            Line("Predicted", Len(Outcome[profile[v]].impacts))>>]
    /\ UNCHANGED <<dvars, mvars, calls, videos, profile, cpus, swings, phase, job, collected, reported,
                   cuts, before, ranBefore, doneBefore, files, idx>>

NextClip_ZeroBased(v) ==
    ClipName(v, nxt[v] - 1, StartTenths(found[v][nxt[v]], Video(profile[v]).fps))

\* the clip the task of v cuts next
NextClip(v) ==
    ClipName(v, nxt[v], StartTenths(found[v][nxt[v]], Video(profile[v]).fps))

\* the ffmpeg invocation the task of v makes next: -ss start_time (a numerator
\* over fps; the rounding of "{:.3f}" is left out), -t 2 * WINDOW_SEC seconds,
\* the output path, and the exit status rc the process ends with
NextCall(v, rc) ==
    [ss  |-> WindowStart(found[v][nxt[v]], Video(profile[v]).fps),
     t   |-> 2 * WINDOW_SEC,
     out |-> NextClip(v),
     rc  |-> rc]

\* process_one_video, lines 136-147: ffmpeg exits 0 and has written the clip
CutClipOk(v) ==
    /\ v \in Running
    /\ nxt[v] \in 1..Len(found[v])
    /\ swings' = swings \cup {NextClip(v)}
    /\ nxt' = [nxt EXCEPT ![v] = @ + 1]
    /\ did' = [did EXCEPT ![v] = @ \cup {"cut"}]
    /\ cuts' = cuts + 1
    /\ calls' = [calls EXCEPT ![v] = Append(@, NextCall(v, 0))]
    /\ UNCHANGED <<dvars, mvars, printed, videos, profile, cpus, phase, job, found, collected, reported,
                   all_results, before, ranBefore, doneBefore, files, idx>>

\* process_one_video, lines 136-147: ffmpeg exits non-zero and leaves no clip;
\* the exit status is not looked at
CutClipFails(v) ==
    /\ v \in Running
    /\ nxt[v] \in 1..Len(found[v])
    /\ nxt' = [nxt EXCEPT ![v] = @ + 1]
    /\ did' = [did EXCEPT ![v] = @ \cup {"cut"}]
    /\ cuts' = cuts + 1
    /\ calls' = [calls EXCEPT ![v] = Append(@, NextCall(v, 1))]
    /\ UNCHANGED <<dvars, mvars, printed, videos, profile, cpus, swings, phase, job, found, collected,
                   reported, all_results, before, ranBefore, doneBefore, files, idx>>

\* process_one_video, line 148: the loop is over, the task returns
FinishVideo(v) ==
    /\ v \in Running
    /\ nxt[v] = Len(found[v]) + 1
    /\ job' = [job EXCEPT ![v] = "Done"]
    /\ printed' = [printed EXCEPT ![v] = Append(@, Line("Wrote", Len(found[v])))]
    /\ UNCHANGED <<dvars, mvars, calls, videos, profile, cpus, swings, phase, found, nxt, did, collected,
                   reported, all_results, cuts, before, ranBefore, doneBefore, files, idx>>

\* for fut in as_completed(futures): fut.result() returns
CollectResult(v) ==
    /\ phase = "running"
    /\ v \in DOMAIN job \ collected
    /\ Completed(v)
    /\ job[v] # "Failed"
    /\ collected' = collected \cup {v}
    /\ job' = [job EXCEPT ![v] = AfterResult(@)]
    /\ UNCHANGED <<dvars, mvars, calls, printed, videos, profile, cpus, swings, phase, found, nxt, did, reported,
                   all_results, cuts, before, ranBefore, doneBefore, files, idx>>

\* for fut in as_completed(futures): fut.result() raises, the error is printed
ReportError(v) ==
    /\ phase = "running"
    /\ v \in DOMAIN job \ collected
    /\ Completed(v)
    /\ job[v] = "Failed"
    /\ collected' = collected \cup {v}
    /\ reported' = reported \cup {v}
    /\ job' = [job EXCEPT ![v] = AfterResult(@)]
    /\ UNCHANGED <<dvars, mvars, calls, printed, videos, profile, cpus, swings, phase, found, nxt, did,
                   all_results, cuts, before, ranBefore, doneBefore, files, idx>>

\* the loop over as_completed is over and the executor has shut down (it waits
\* for every task): "All done" is printed
AllDone ==
    /\ phase = "running"
    /\ collected = videos
    /\ \A v \in videos : job[v] \in {"Skipped", "Done", "Failed"}
    /\ phase' = "finished"
    /\ UNCHANGED <<dvars, mvars, calls, printed, videos, profile, cpus, swings, job, found, nxt, did, collected,
                   reported, all_results, cuts, before, ranBefore, doneBefore, files, idx>>

\* ------------------------------------------------------------ review
\* ReviewWindow.__init__: auto_segment_all has returned, its tasks are gone
OpenReview ==
    /\ phase = "finished"
    /\ phase' = "review"
    /\ files' = SortedNames(swings)
    /\ idx' = 0
    /\ job' = <<>>
    /\ found' = <<>>
    /\ nxt' = <<>>
    /\ did' = <<>>
    /\ collected' = {}
    /\ reported' = {}
    /\ cuts' = 0
    /\ before' = {}
    /\ calls' = <<>>
    /\ printed' = <<>>
    /\ doneBefore' = doneBefore \cup {v \in DOMAIN job : job[v] = "Done"}
    /\ UNCHANGED <<dvars, mvars, videos, profile, cpus, swings, all_results, ranBefore>>

\* accept_clip: the current clip is moved to SEGMENTS_DIR (which, like the
\* database, the batch never reads)
AcceptClip ==
    /\ phase = "review"
    /\ idx < Len(files)
    /\ swings' = swings \ {files[idx + 1]}
    /\ idx' = idx + 1
    /\ UNCHANGED <<dvars, mvars, calls, printed, videos, profile, cpus, phase, job, found, nxt, did, collected,
                   reported, all_results, cuts, before, ranBefore, doneBefore, files>>

\* reject_clip: the current clip is deleted
RejectClip ==
    /\ phase = "review"
    /\ idx < Len(files)
    /\ swings' = swings \ {files[idx + 1]}
    /\ idx' = idx + 1
    /\ UNCHANGED <<dvars, mvars, calls, printed, videos, profile, cpus, phase, job, found, nxt, did, collected,
                   reported, all_results, cuts, before, ranBefore, doneBefore, files>>

\* skip_clip: on to the next clip
SkipClip ==
    /\ phase = "review"
    /\ idx < Len(files)
    /\ idx' = idx + 1
    /\ UNCHANGED <<dvars, mvars, calls, printed, videos, profile, cpus, swings, phase, job, found, nxt, did,
                   collected, reported, all_results, cuts, before, ranBefore, doneBefore, files>>

\* the window is closed and the program is started again
Relaunch ==
    /\ phase = "review"
    /\ phase' = "idle"
    /\ ranBefore' = TRUE
    /\ files' = <<>>
    /\ idx' = 0
    /\ UNCHANGED <<dvars, mvars, calls, printed, videos, profile, cpus, swings, job, found, nxt, did, collected,
                   reported, all_results, cuts, before, doneBefore>>

\* ------------------------------------------------------------ specifications
\* the peak extractor alone: no batch
BatchIdle ==
    /\ videos = {}
    /\ profile = <<>>
    /\ cpus = 1
    /\ swings = {}
    /\ phase = "idle"
    /\ NoRun
    /\ all_results = <<>>
    /\ ranBefore = FALSE
    /\ doneBefore = {}
    /\ files = <<>>
    /\ idx = 0

\* the batch alone: the peak extractor's variables rest
DetectIdle ==
    /\ fps = 0
    /\ times = <<>>
    /\ mags = <<>>
    /\ min_sep = 0
    /\ frame_count = 0
    /\ peaks = <<>>
    /\ events = <<>>
    /\ impacts = <<>>
    /\ dpc = "idle"

\* no video is being read
MotionIdle ==
    /\ cap_frames = <<>>
    /\ cap_fps = 0
    /\ downsample = 0
    /\ frame_idx = 0
    /\ prev_gray = <<>>
    /\ m_times = <<>>
    /\ m_mags = <<>>
    /\ retained = {}
    /\ read_failed = FALSE
    /\ mpc = "idle"

NextDetect == DetectEmpty \/ DetectRaises \/ DetectImpacts \/ Trim

InitDetectOnly == InitDetect /\ BatchIdle /\ MotionIdle

\* process_one_video on one video, lines 105-112: the frames are read one by
\* one, the series goes through detect_impacts and the edge trimming
NextMotion ==
    \/ ReadRetained
    \/ ReadDropped
    \/ ReadEnds
    \/ ReadFails
    \/ CallDetect
    \/ DetectEmpty
    \/ DetectRaises
    \/ DetectImpacts
    \/ Trim

InitMotionOnly == InitMotion /\ DetectIdle /\ BatchIdle

SpecMotion == InitMotionOnly /\ [][NextMotion]_vars

SpecDetect == InitDetectOnly /\ [][NextDetect]_vars

NextBatch ==
    \/ NoVideos
    \/ Submit
    \/ \E v \in Stems : SkipVideo(v)
    \/ \E v \in Stems : BeginVideo(v)
    \/ \E v \in Stems : AnalyseRaises(v)
    \/ \E v \in Stems : Analyse(v)
    \/ \E v \in Stems : CutClipOk(v)
    \/ \E v \in Stems : CutClipFails(v)
    \/ \E v \in Stems : FinishVideo(v)
    \/ \E v \in Stems : CollectResult(v)
    \/ \E v \in Stems : ReportError(v)
    \/ AllDone
    \/ OpenReview
    \/ AcceptClip
    \/ RejectClip
    \/ SkipClip
    \/ Relaunch

Init == InitBatch /\ DetectIdle /\ MotionIdle

Spec == Init /\ [][NextBatch]_vars

\* one call of auto_segment_all, from the first launch to its return
NextRun ==
    \/ NoVideos
    \/ Submit
    \/ \E v \in Stems : SkipVideo(v)
    \/ \E v \in Stems : BeginVideo(v)
    \/ \E v \in Stems : AnalyseRaises(v)
    \/ \E v \in Stems : Analyse(v)
    \/ \E v \in Stems : CutClipOk(v)
    \/ \E v \in Stems : CutClipFails(v)
    \/ \E v \in Stems : FinishVideo(v)
    \/ \E v \in Stems : CollectResult(v)
    \/ \E v \in Stems : ReportError(v)
    \/ AllDone

\* the steps of the main thread in auto_segment_all
MainThread ==
    \/ NoVideos
    \/ Submit
    \/ \E v \in Stems : CollectResult(v) \/ ReportError(v)
    \/ AllDone

\* the steps of the task of v, from the worker's taking it to its end
WorkerThread(v) ==
    \/ SkipVideo(v)
    \/ BeginVideo(v)
    \/ AnalyseRaises(v)
    \/ Analyse(v)
    \/ CutClipOk(v)
    \/ CutClipFails(v)
    \/ FinishVideo(v)

\* the main thread goes on; the pool gives a free worker to a pending task;
\* a worker thread goes on with its task, and every call it makes (OpenCV's
\* probe and reads, over a finite file, and the ffmpeg process, whichever its
\* exit status) returns; as_completed yields every future that is done
RunFairness ==
    /\ WF_vars(MainThread)
    /\ \A v \in Stems : WF_vars(WorkerThread(v))

\* the first launch over a corpus of videos that fail, give no event or give
\* two events
InitRun ==
    /\ InitBatch
    /\ \A v \in videos : profile[v] \in {"unreadable", "short", "two"}
    /\ DetectIdle
    /\ MotionIdle

SpecRun == InitRun /\ [][NextRun]_vars /\ RunFairness

\* ------------------------------------------------------------ properties of the peak extractor
\* the candidates' times
PeakTimes == [i \in DOMAIN peaks |-> times[peaks[i]]]

\* the latest returned event before time t (-min_sep when there is none)
LastKeptBefore(t) ==
    LET S == {e \in Range(events) : e < t}
    IN  IF S = {} THEN -(min_sep * fps)
        ELSE CHOOSE e \in S : \A x \in S : x <= e

\* C1: the events detect_impacts returns are strictly increasing in time (so
\* unique) and any two are at least min_sep seconds apart; the same holds of
\* the events left after the caller's edge trimming.
C1_EventsSeparated ==
    /\ dpc \in {"returned", "trimmed"} =>
          StrictlyIncreasing(events) /\ Separated(events, min_sep * fps)
    /\ dpc = "trimmed" =>
          StrictlyIncreasing(impacts) /\ Separated(impacts, min_sep * fps)

\* a run where the second pass dropped a candidate, trimming dropped an event
\* and two events are left
C1_Witness ==
    /\ dpc = "trimmed"
    /\ Len(peaks) > Len(events)
    /\ Len(events) > Len(impacts)
    /\ Len(impacts) >= 2

\* C2: the second pass is the greedy left-to-right selection: the events are
\* candidates' times in increasing order, the first candidate is kept, and a
\* candidate is kept if and only if its time is at least min_sep after the
\* latest kept event before it (exactly min_sep apart: kept), whatever the
\* magnitudes.
C2_GreedySelection ==
    dpc = "returned" =>
        /\ StrictlyIncreasing(events)
        /\ Range(events) \subseteq Range(PeakTimes)
        /\ peaks # <<>> => (events # <<>> /\ events[1] = PeakTimes[1])
        /\ \A i \in DOMAIN peaks :
              (PeakTimes[i] \in Range(events))
                <=> (PeakTimes[i] - LastKeptBefore(PeakTimes[i]) >= min_sep * fps)

\* a run that dropped a candidate strictly higher than the event kept before
\* it, and kept two candidates exactly min_sep apart
C2_Witness ==
    /\ dpc = "returned"
    /\ \E i \in DOMAIN peaks :
          /\ PeakTimes[i] \notin Range(events)
          /\ \E k \in DOMAIN peaks :
                /\ PeakTimes[k] = LastKeptBefore(PeakTimes[i])
                /\ mags[peaks[i]] > mags[peaks[k]]
    /\ \E a \in DOMAIN events : \E b \in DOMAIN events :
          events[b] - events[a] = min_sep * fps

\* the state holds the synthetic series: sampled every 1/fps seconds, flat but
\* for spikes at exactly 5, 12, 40, 41 and 70 s, min_sep = 20
IsSpikeSeries ==
    /\ min_sep = MIN_SEP_SEC
    /\ Len(mags) > 70 * fps
    /\ times = GridTimes(Len(mags), 1)
    /\ \A j \in DOMAIN mags : (mags[j] > 0) <=> (j \in {sec * fps : sec \in SpikeSeconds})

\* C3 as stated: on the synthetic series detect_impacts returns {5, 40, 70}
\* whatever the heights of the spikes.
C3_Original ==
    (dpc = "returned" /\ IsSpikeSeries) =>
        events = <<5 * fps, 40 * fps, 70 * fps>>

\* C3, amended: with at least 81 samples (the five spikes are then all at or
\* above the 95th percentile) detect_impacts returns {5, 40, 70} whatever the
\* heights when a lower sample separates the spikes at 40 and 41 (sampling
\* interval of 0.5 s or less); sampled once a second it returns {5, 40, 70}
\* when the spike at 41 is not higher than the one at 40, and {5, 41, 70}
\* when it is higher.
C3_SpikesAmended ==
    (dpc = "returned" /\ IsSpikeSeries /\ Len(mags) >= 81) =>
        events = IF fps = 1 /\ mags[41] > mags[40]
                 THEN <<5, 41, 70>>
                 ELSE <<5 * fps, 40 * fps, 70 * fps>>

\* the synthetic series sampled twice a second, the spike at 41 the higher one
C3_Witness ==
    /\ dpc = "returned"
    /\ IsSpikeSeries
    /\ fps = 2
    /\ mags[82] > mags[80]
    /\ events = <<10, 80, 140>>

\* C10: edge trimming keeps exactly the events t with lo <= t <= hi, lo the
\* first and hi the last 2.58% mark of the duration, in their order; of a
\* 1000-second video the events at 5 s and 995 s are discarded and the events
\* at 30 s and 970 s are kept.
C10_EdgeTrimming ==
    dpc = "trimmed" =>
        /\ StrictlyIncreasing(impacts)
        /\ \A t \in Range(events) :
              (t \in Range(impacts))
                <=> /\ 10000 * t >= 258 * frame_count
                    /\ 10000 * t <= 9742 * frame_count
        /\ Range(impacts) \subseteq Range(events)
        /\ frame_count = 1000 * fps =>
              /\ 5 * fps \notin Range(impacts)
              /\ 995 * fps \notin Range(impacts)
              /\ 30 * fps \in Range(events) => 30 * fps \in Range(impacts)
              /\ 970 * fps \in Range(events) => 970 * fps \in Range(impacts)

\* the 1000-second video with events at 5, 30, 970 and 995 s, trimmed
C10_Witness ==
    /\ dpc = "trimmed"
    /\ frame_count = 1000 * fps
    /\ {5 * fps, 30 * fps, 970 * fps, 995 * fps} \subseteq Range(events)
    /\ impacts = <<30 * fps, 970 * fps>>

\* ------------------------------------------------------------ properties of the batch
\* processing this video raises
Raising(v) == Outcome[profile[v]].raises # "no"

Terminal == {"Skipped", "Done", "Failed"}

\* a clip lies in SWINGS_DIR whose name starts with the stem and "_"
StemClipExists(v) ==
    \E n \in swings :
        /\ Len(n) > Len(v)
        /\ \A i \in 1..Len(v) : n[i] = v[i]
        /\ n[Len(v) + 1] = "_"

\* nothing this run found, and nothing another video of the corpus may write,
\* has a name that starts with the stem of v and "_"
Fresh(v) ==
    /\ \A n \in before : ~IsPrefix(v \o <<"_">>, n)
    /\ \A w \in videos \ {v} : ~IsPrefix(v \o <<"_">>, w \o <<"_">>)

\* C4 as stated: a batch run over a corpus that a batch run has processed
\* before invokes the clip cutter zero times and leaves the clip files as it
\* found them.
C4_IdempotentRerun ==
    ranBefore => (cuts = 0 /\ (phase = "finished" => swings = before))

\* C5: only a video whose own processing raises is Failed, at any time; when
\* auto_segment_all is through, every failure has been caught and reported,
\* every other video is Done or Skipped, and it is Done when no clip name
\* starting with its stem and "_" was there or could be written by a sibling.
C5_FailureIsolation ==
    /\ \A v \in DOMAIN job : job[v] = "Failed" => Raising(v)
    /\ (phase = "finished" /\ videos # {}) =>
          \A v \in videos :
              /\ job[v] \in Terminal
              /\ job[v] = "Failed" => v \in reported
              /\ ~Raising(v) => job[v] \in {"Done", "Skipped"}
              /\ (~Raising(v) /\ Fresh(v)) => job[v] = "Done"

\* three videos on three workers, one Failed, the other two Done
C5_Witness ==
    /\ phase = "finished"
    /\ cpus = 3
    /\ Cardinality(videos) = 3
    /\ \E v \in videos :
          /\ job[v] = "Failed"
          /\ \A w \in videos \ {v} : job[w] = "Done" /\ Len(found[w]) > 0

\* C6: a pending video with a clip of its stem in SWINGS_DIR can only become
\* Skipped, and a video becomes Skipped only so; the step changes no file and
\* invokes nothing, and a Skipped task stays Skipped and never probes, decodes,
\* detects or cuts.
C6_SkipDoesNothing ==
    [][\A v \in DOMAIN job \cap DOMAIN job' :
          /\ (job[v] = "Pending" /\ job'[v] # "Pending" /\ StemClipExists(v))
                => job'[v] = "Skipped"
          /\ (job[v] = "Pending" /\ job'[v] = "Skipped")
                => /\ StemClipExists(v)
                   /\ swings' = swings
                   /\ cuts' = cuts
                   /\ did'[v] = {}
          /\ job[v] = "Skipped" => (job'[v] = "Skipped" /\ did'[v] = {})]_vars

\* a video is Skipped while a sibling, processed in the same run, has cut
C6_Witness ==
    /\ phase = "running"
    /\ \E v \in DOMAIN job :
          /\ job[v] = "Skipped"
          /\ did[v] = {}
          /\ \E w \in DOMAIN job : "cut" \in did[w]

\* C7 as stated: no failure is reported while a sibling task is pending or
\* running.
C7_Original ==
    reported # {} => \A v \in DOMAIN job : job[v] \in Terminal

\* C7, amended: a video's failure is reported only after that video's own task
\* has ended Failed and as_completed has yielded it (siblings may still be
\* pending or running); when auto_segment_all is through, every task has
\* ended and the reported videos are exactly the Failed ones.
C7_ReportAfterOwnTask ==
    /\ \A v \in reported : v \in collected /\ job[v] = "Failed"
    /\ (phase = "finished" /\ videos # {}) =>
          \A v \in videos :
              /\ job[v] \in Terminal
              /\ job[v] = "Failed" <=> v \in reported

\* a failure is reported while one sibling is running and another is pending
C7_Witness ==
    /\ reported # {}
    /\ \E v \in DOMAIN job : job[v] = "Processing"
    /\ \E v \in DOMAIN job : job[v] = "Pending"

AllowedTransitions ==
    { <<"Pending", "Skipped">>, <<"Pending", "Processing">>,
      <<"Processing", "Done">>, <<"Processing", "Failed">> }

\* C8: during a run there is one task per video of the corpus, and a task's
\* state changes only Pending -> Skipped, Pending -> Processing, Processing ->
\* Done or Processing -> Failed: Skipped, Done and Failed are never left.
C8_JobTransitions ==
    [][/\ phase' = "running" => DOMAIN job' = videos'
       /\ (phase = "running" /\ phase' \in {"running", "finished"})
             => DOMAIN job' = DOMAIN job
       /\ \A v \in DOMAIN job \cap DOMAIN job' :
             job'[v] # job[v] => <<job[v], job'[v]>> \in AllowedTransitions]_vars

\* a run that has ended with a Skipped, a Done and a Failed video
C8_Witness ==
    /\ phase = "finished"
    /\ \E u \in videos, v \in videos, w \in videos :
          job[u] = "Skipped" /\ job[v] = "Done" /\ job[w] = "Failed"

\* C9: no task writes to all_results: the mapping stays empty whatever the
\* tasks do and however they interleave.
C9_NoSharedWrites == DOMAIN all_results = {}

\* two tasks are past their analysis at the same time
C9_Witness ==
    /\ Cardinality({v \in Running : nxt[v] >= 1}) >= 2
    /\ DOMAIN all_results = {}

\* ------------------------------------------------------------ properties of the clip loop
\* the frame rate of the video v
VideoOf == [p \in Profiles |-> Video(p)]

FpsOf(v) == VideoOf[profile[v]].fps

\* C11: the i-th ffmpeg invocation of a task asks for the window of the i-th
\* surviving event t: it starts at t - 10 s, or at 0 when that is negative (so
\* never before 0; an event at 2.0 s gives start 0), and it asks for 20 s
\* whatever is left of the video after the start.
C11_WindowClamped ==
    /\ WindowStart(2, 1) = 0
    /\ \A v \in DOMAIN calls : \A i \in DOMAIN calls[v] :
          LET t == found[v][i]
              w == calls[v][i]
          IN  /\ w.ss >= 0
              /\ t >= 10 * FpsOf(v) => w.ss = t - 10 * FpsOf(v)
              /\ t < 10 * FpsOf(v) => w.ss = 0
              /\ w.t = 20

\* one task has cut a window clamped at 0 and another a window that runs past
\* the end of its video
C11_Witness ==
    /\ \E v \in DOMAIN calls : \E i \in DOMAIN calls[v] :
          found[v][i] < 10 * FpsOf(v) /\ calls[v][i].ss = 0
    /\ \E v \in DOMAIN calls : \E i \in DOMAIN calls[v] :
          calls[v][i].ss + calls[v][i].t * FpsOf(v) > VideoOf[profile[v]].frame_count

\* the number of samples compute_motion_series returns for each content
SeriesLength ==
    [p \in Profiles |-> Len(ComputeMotionSeries(Video(p), DOWNSAMPLE_FACTOR).mags)]

\* the duration of v can be computed and its motion series has fewer than 2
\* samples
FewSamples(v) == FpsOf(v) > 0 /\ SeriesLength[profile[v]] < 2

\* C12: a video whose motion series has fewer than 2 samples is never Failed
\* and never reported: its task finds no event, invokes ffmpeg zero times, and
\* having probed, decoded and detected it prints that it wrote 0 clips and
\* ends Done.
C12_EmptySignal ==
    \A v \in DOMAIN job :
        FewSamples(v) =>
            /\ job[v] # "Failed"
            /\ v \notin reported
            /\ found[v] = <<>>
            /\ calls[v] = <<>>
            /\ "cut" \notin did[v]
            /\ (job[v] = "Processing" /\ nxt[v] >= 1) => nxt[v] = 1
            /\ job[v] = "Done" =>
                  /\ did[v] = {"probe", "decode", "detect"}
                  /\ printed[v][Len(printed[v])] = Line("Wrote", 0)
            /\ phase = "finished" => job[v] \in {"Done", "Skipped"}

\* a batch run has ended with a one-sample video Done
C12_Witness ==
    /\ phase = "finished"
    /\ \E v \in videos :
          /\ FewSamples(v)
          /\ VideoOf[profile[v]].nread > 0
          /\ job[v] = "Done"
          /\ cuts = 0

\* cv2 could not open the video or reports no frame rate
PreconditionFails(v) == FpsOf(v) = 0

\* C13: a video that cannot be opened or has frame rate 0 is never analysed
\* with some other rate: its task, unless it is Skipped, raises at the duration
\* probe, before decoding and before any clip is cut, and ends Failed; the
\* orchestrator prints the error with the video's name, and the other videos
\* reach their own terminal states: the run ends with every task ended, the
\* failed one reported.
C13_PreconditionFatal ==
    /\ \A v \in DOMAIN job :
          PreconditionFails(v) =>
              /\ job[v] # "Done"
              /\ did[v] \subseteq {"probe"}
              /\ found[v] = <<>>
              /\ calls[v] = <<>>
              /\ nxt[v] = 0
              /\ job[v] = "Failed" => did[v] = {"probe"}
    /\ \A v \in reported : v \in videos /\ job[v] = "Failed"
    /\ (phase = "finished" /\ videos # {}) =>
          \A v \in videos :
              /\ job[v] \in Terminal
              /\ PreconditionFails(v) => (job[v] = "Skipped" \/ v \in reported)
              /\ (~PreconditionFails(v) /\ ~Raising(v)) => job[v] \in {"Done", "Skipped"}

\* a run on one worker has ended with an unreadable video Failed and reported
\* and a sibling Done with a clip cut
C13_Witness ==
    /\ phase = "finished"
    /\ cpus = 1
    /\ \E v \in videos, w \in videos :
          /\ PreconditionFails(v)
          /\ job[v] = "Failed"
          /\ v \in reported
          /\ job[w] = "Done"
          /\ Len(calls[w]) > 0

\* the task of v has printed a line about a failed clip cut
CutFailureLogged(v) ==
    \E k \in DOMAIN printed[v] : printed[v][k].msg \notin
        {"Skipping", "Processing", "Duration", "Predicted", "Wrote"}

\* C14 as stated: an ffmpeg invocation that exits non-zero is logged by the
\* task, leaves the task running (it does not become Failed because of it),
\* and the task still invokes ffmpeg for every remaining window before it is
\* Done.
C14_CutFailureLogged ==
    \A v \in DOMAIN job :
        /\ job[v] = "Failed" => calls[v] = <<>>
        /\ job[v] = "Done" => Len(calls[v]) = Len(found[v])
        /\ (job[v] = "Done" /\ \E i \in DOMAIN calls[v] : calls[v][i].rc # 0)
              => CutFailureLogged(v)

\* how many times the task of v has entered process_one_video
Entries(v) ==
    Cardinality({k \in DOMAIN printed[v] : printed[v][k].msg \in {"Skipping", "Processing"}})

\* C16: at every moment at most os.cpu_count() videos are Processing; during
\* a run the submitted tasks are exactly the videos of the input directory,
\* and each task enters process_one_video at most once, exactly once by the
\* time it has ended.
C16_BoundedPool ==
    /\ Cardinality({v \in DOMAIN job : job[v] = "Processing"}) <= cpus
    /\ phase = "running" => DOMAIN job = videos
    /\ \A v \in DOMAIN job :
          /\ Entries(v) <= 1
          /\ job[v] = "Pending" <=> Entries(v) = 0

\* every worker is busy and a video waits
C16_Witness ==
    /\ cpus = 2
    /\ Cardinality({v \in DOMAIN job : job[v] = "Processing"}) = 2
    /\ \E v \in DOMAIN job : job[v] = "Pending"

\* the windows' starts and the clips' names due for each stem and content
ClipsDue ==
    [st \in Stems, p \in Profiles |->
        LET ev == Outcome[p].impacts
            f  == VideoOf[p].fps
        IN  [i \in DOMAIN ev |->
                LET ss == Max2(0, ev[i] - 10 * f)
                IN  [ss |-> ss, out |-> ClipName(st, i, RoundHalfEven(10 * ss, f))]]]

\* C18: the i-th ffmpeg invocation of a task writes the clip of the i-th
\* surviving event in increasing time order, named stem, "_", the two-digit
\* index i counted from 1, "_", the window start with one decimal, "s.mp4";
\* a Done task has invoked ffmpeg once per surviving event, and no invocation
\* is made before the task has probed, decoded and detected.
C18_ClipOrderAndNames ==
    \A v \in DOMAIN calls :
        /\ StrictlyIncreasing(found[v])
        /\ Len(calls[v]) <= Len(found[v])
        /\ job[v] = "Done" => Len(calls[v]) = Len(found[v])
        /\ calls[v] # <<>> =>
              /\ {"probe", "decode", "detect"} \subseteq did[v]
              /\ found[v] = Outcome[profile[v]].impacts
        /\ \A i \in DOMAIN calls[v] :
              /\ calls[v][i].ss = ClipsDue[v, profile[v]][i].ss
              /\ calls[v][i].out = ClipsDue[v, profile[v]][i].out
        /\ (profile[v] = "two" /\ Len(calls[v]) = 2) =>
              /\ calls[v][1].out =
                    v \o <<"_", "0", "1", "_", "0", ".", "0", "s", ".", "m", "p", "4">>
              /\ calls[v][2].out =
                    v \o <<"_", "0", "2", "_", "5", "0", ".", "0", "s", ".", "m", "p", "4">>

\* a task has cut the two clips of a video with events at 5 s and 60 s
C18_Witness ==
    \E v \in DOMAIN job :
        /\ job[v] = "Done"
        /\ profile[v] = "two"
        /\ Len(calls[v]) = 2
        /\ calls[v][1].rc = 0
        /\ calls[v][2].rc = 0
        /\ {calls[v][1].out, calls[v][2].out} \subseteq swings

\* ------------------------------------------------------------ properties of the reader
\* the indices, among the first n frames, that are multiples of the stride
Multiples(n) == {i \in 0..(n - 1) : i % downsample = 0}

\* the samples due when the first n frames have been read: one per multiple
\* of the stride but the first
SamplesDue(n) == IF Multiples(n) = {} THEN 0 ELSE Cardinality(Multiples(n)) - 1

\* C19: whatever has been read, the retained frames are exactly those whose
\* index is a multiple of downsample; the first retained frame gave no sample
\* and every later one exactly one, so r retained frames give max(0, r - 1)
\* samples (none when r < 2); the j-th sample has the time of the (j+1)-th
\* retained frame, index / fps, and the flow magnitude between that frame and
\* the retained frame before it; the times are strictly increasing.
C19_MotionSeries ==
    mpc \in {"reading", "returned", "detecting"} =>
        /\ retained = Multiples(frame_idx)
        /\ Len(m_times) = SamplesDue(frame_idx)
        /\ Len(m_mags) = Len(m_times)
        /\ Cardinality(retained) < 2 => m_times = <<>>
        /\ \A j \in DOMAIN m_times :
              /\ m_times[j] = j * downsample
              /\ m_times[j] \in retained
              /\ m_mags[j] = Abs(cap_frames[j * downsample + 1]
                                 - cap_frames[(j - 1) * downsample + 1])
        /\ StrictlyIncreasing(m_times)
        /\ m_times = ComputeMotionSeries([nread |-> frame_idx, spikes |-> <<>>],
                                         downsample).times

\* five frames read to the end at stride 2: frames 0, 2 and 4 are retained and
\* give two samples
C19_Witness ==
    /\ mpc = "returned"
    /\ ~read_failed
    /\ downsample = 2
    /\ frame_idx = 5
    /\ retained = {0, 2, 4}
    /\ m_times = <<2, 4>>

\* what compute_motion_series returns when every frame is read
FullTimes == [j \in 1..SamplesDue(Len(cap_frames)) |-> j * downsample]

FullMags ==
    [j \in 1..SamplesDue(Len(cap_frames)) |->
        Abs(cap_frames[j * downsample + 1] - cap_frames[(j - 1) * downsample + 1])]

\* C15: when a read fails before the last frame, compute_motion_series
\* returns (it does not raise) the samples of the frames read before the
\* failure, all of them and no other: the first SamplesDue(frames read)
\* entries of the full series; detect_impacts is then called with exactly
\* that series.
C15_PartialDecode ==
    read_failed =>
        /\ mpc \in {"returned", "detecting"}
        /\ frame_idx < Len(cap_frames)
        /\ Len(m_times) = SamplesDue(frame_idx)
        /\ m_times = SubSeq(FullTimes, 1, Len(m_times))
        /\ m_mags = SubSeq(FullMags, 1, Len(m_times))
        /\ mpc = "detecting" =>
              /\ times = m_times
              /\ mags = m_mags
              /\ dpc \in {"start", "returned", "raised", "trimmed"}

\* a read failed after some samples, and the shortened series has gone
\* through detect_impacts and trimming and has given an event
C15_Witness ==
    /\ read_failed
    /\ Len(m_times) >= 3
    /\ Len(m_times) < Len(FullTimes)
    /\ dpc = "trimmed"
    /\ impacts # <<>>

\* ------------------------------------------------------------ properties of the first pass
\* 100 * thr, thr the 95th percentile of all magnitudes
Thr100 == Percentile100(mags, 95)

\* sample p is not at either end and lies on a flat run that is strictly
\* higher than the samples on both sides of it
IsLocalMaximum(p) ==
    /\ p \in 2..(Len(mags) - 1)
    /\ \E l \in 2..p : \E r \in p..(Len(mags) - 1) :
          /\ \A k \in l..r : mags[k] = mags[p]
          /\ mags[l - 1] < mags[p]
          /\ mags[r + 1] < mags[p]

\* C20: the candidates of the first pass are sample indices in increasing
\* order; each is a local maximum of the magnitudes with magnitude >= thr, and
\* any two are at least floor(1 / sampling interval) samples apart; every
\* returned event is the time of a candidate, so of a sample of magnitude
\* >= thr.
C20_FirstPass ==
    (dpc = "returned" /\ peaks # <<>>) =>
        LET thr == Thr100
            min_dist == fps \div (times[2] - times[1])
        IN  /\ StrictlyIncreasing(peaks)
            /\ \A i \in DOMAIN peaks :
                  /\ IsLocalMaximum(peaks[i])
                  /\ 100 * mags[peaks[i]] >= thr
            /\ \A i \in DOMAIN peaks : \A k \in DOMAIN peaks :
                  i < k => peaks[k] - peaks[i] >= min_dist
            /\ \A e \in Range(events) :
                  \E i \in DOMAIN peaks :
                      times[peaks[i]] = e /\ 100 * mags[peaks[i]] >= thr

\* the first pass has left out a local maximum below thr and a local maximum
\* of magnitude >= thr closer than the sample distance to a candidate
C20_Witness ==
    /\ dpc = "returned"
    /\ Len(mags) = 9
    /\ peaks # <<>>
    /\ \E p \in DOMAIN mags :
          IsLocalMaximum(p) /\ 100 * mags[p] < Thr100
    /\ \E p \in DOMAIN mags :
          /\ IsLocalMaximum(p)
          /\ 100 * mags[p] >= Thr100
          /\ p \notin Range(peaks)
          /\ \E i \in DOMAIN peaks :
                Abs(peaks[i] - p) < fps \div (times[2] - times[1])

\* ------------------------------------------------------------ properties of the evaluation
\* the ground truth supplied for every video: one window, 10 s to 20 s
ManualWindows == {<<10, 20>>}

\* the classification of the events ev (numerators over f) against the
\* windows W (seconds): correct inside a window, bounds included, spurious
\* otherwise; a window is missed when no event is inside it
Classification(ev, W, f) ==
    LET inside(t, w) == w[1] * f <= t /\ t <= w[2] * f
    IN  [correct  |-> {t \in Range(ev) : \E w \in W : inside(t, w)},
         spurious |-> {t \in Range(ev) : \A w \in W : ~inside(t, w)},
         missed   |-> {w \in W : \A t \in Range(ev) : ~inside(t, w)}]

\* C17 as stated: the events of every processed video are classified against
\* its manual windows: the result recorded for the video holds its correct
\* and spurious events, which partition the events, and its missed windows.
C17_EventsClassified ==
    \A v \in DOMAIN job :
        job[v] = "Done" =>
            /\ v \in DOMAIN all_results
            /\ all_results[v] = Classification(found[v], ManualWindows, FpsOf(v))

\* ------------------------------------------------------------ termination of a batch run
\* C21: every batch run terminates: every submitted video reaches Skipped,
\* Done or Failed, auto_segment_all gets to its completion message (or to "No
\* videos found"), and it has printed the completion message only when every
\* video is in a terminal state and every future has been yielded, however
\* many tasks have failed.
C21_RunTerminates ==
    /\ <>(/\ phase = "finished"
          /\ collected = videos
          /\ \A v \in videos : v \in DOMAIN job /\ job[v] \in Terminal)
    /\ []((phase = "finished" /\ videos # {}) =>
            /\ collected = videos
            /\ \A v \in videos : job[v] \in Terminal)

\* a run of three videos has ended, every task Failed and reported
C21_Witness ==
    /\ phase = "finished"
    /\ Cardinality(videos) = 3
    /\ \A v \in videos : job[v] = "Failed" /\ v \in reported

\* ------------------------------------------------------------ the skip rule across videos and runs
\* the names of the clips that are cut from the video v
OwnClips(v) ==
    {ClipsDue[v, profile[v]][i].out : i \in DOMAIN ClipsDue[v, profile[v]]}

\* C22 as stated: a video is Skipped only if a clip cut from that same video
\* lies in SWINGS_DIR: the clips of a video with another stem, "a_b" for "a"
\* too, never make it Skipped.
C22_SkippedForOwnClips ==
    \A v \in DOMAIN job : job[v] = "Skipped" => swings \cap OwnClips(v) # {}

\* C23 as stated: a video that an earlier batch run has processed to Done is
\* Skipped by every later batch run over the same corpus: its task is Pending
\* or Skipped and never probes, decodes, detects or cuts again.
C23_DoneThenSkipped ==
    \A v \in DOMAIN job \cap doneBefore :
        job[v] \in {"Pending", "Skipped"} /\ did[v] = {}

\* ------------------------------------------------------------ the order of selection and trimming
\* the candidate p lies in the first 2.58% of the duration
InHead(p) == 10000 * times[p] < 258 * frame_count

\* the candidate p lies in the last 2.58% of the duration
InTail(p) == 10000 * times[p] > 9742 * frame_count

\* the candidates outside the edge regions, in their order
InnerPeaks == SelectSeq(peaks, LAMBDA p : ~InHead(p) /\ ~InTail(p))

\* the greedy selection applied to the candidates outside the edge regions
TrimThenSelect == EnforceSeparation(times, InnerPeaks, min_sep * fps)

\* C24 as stated: the events left after selection and trimming are the events
\* the greedy selection gives on the candidates outside the edge regions.
C24_Original ==
    dpc = "trimmed" => impacts = TrimThenSelect

\* C24, amended: the events left are those the greedy selection gives on the
\* candidates outside the edge regions whenever every candidate in the leading
\* edge region is at least min_sep before every candidate outside the edge
\* regions; candidates in the trailing edge region never matter. A candidate
\* of the leading edge region that is closer can make a candidate outside the
\* edge regions be dropped.
C24_SelectThenTrim ==
    dpc = "trimmed" =>
        ((\A h \in Range(peaks) : \A p \in Range(InnerPeaks) :
              InHead(h) => times[p] - times[h] >= min_sep * fps)
            => impacts = TrimThenSelect)

\* candidates in both edge regions and between them, the one in the leading
\* region min_sep before the others: the edge events are trimmed away
C24_Witness ==
    /\ dpc = "trimmed"
    /\ \E h \in Range(peaks) : InHead(h)
    /\ \E h \in Range(peaks) : InTail(h)
    /\ InnerPeaks # <<>>
    /\ \A h \in Range(peaks) : \A p \in Range(InnerPeaks) :
          InHead(h) => times[p] - times[h] >= min_sep * fps
    /\ Len(impacts) < Len(events)
    /\ impacts = TrimThenSelect
    /\ impacts # <<>>

\* ------------------------------------------------------------ the inter-peak distance
\* C25 as stated: on a series of at least 2 samples the inter-peak distance
\* int(1 / (times[1] - times[0])) is at least 1, whatever the frame rate and
\* the stride, and detect_impacts returns its events: it never raises.
C25_DistanceAccepted ==
    (dpc # "start" /\ Len(mags) >= 2) =>
        /\ MinDist(times, fps) >= 1
        /\ dpc \in {"returned", "trimmed"}


====
